---------------------------- MODULE Spec2Model ----------------------------
(***************************************************************************)
(* The "Codex Automated PR" GitHub Actions workflow of                     *)
(* examples/codex/jira-github.ipynb (the YAML of lines 88-200), as a state *)
(* machine.  A trigger is a workflow_dispatch event; every accepted        *)
(* trigger starts one run of the job codex_auto_pr, whose steps 0-7        *)
(* execute in order and stop at the first step that exits non-zero.  Runs  *)
(* of different triggers interleave freely: the workflow declares no       *)
(* concurrency group.  The issue tracker (Jira) and the source-control     *)
(* host (GitHub pull requests) are the shared state the runs act on.       *)
(***************************************************************************)
EXTENDS Naturals, Integers, Sequences, FiniteSets, TLC

(***************************************************************************)
(* Bounds.                                                                 *)
(***************************************************************************)
MaxTriggers == 2
MaxLen == 3

(***************************************************************************)
(* Characters of an issue description.  A description is a sequence of     *)
(* characters; "a" stands for any character the shell and the tracker      *)
(* treat as ordinary text.                                                 *)
(***************************************************************************)
DQ == "\""
NL == "\n"
BS == "\\"
SP == " "
SQ == "'"
Letter == "a"

(***************************************************************************)
(* A stretch of text that reads NAME=value: as a line of a description it  *)
(* is a line of $GITHUB_ENV with a NAME= of its own.  It has no character  *)
(* that is special to bash.                                                *)
(***************************************************************************)
AssignedKey == "PROJ-2"
Assignment == "ISSUE_KEY=" \o AssignedKey

Char == {Letter, DQ, NL, BS, Assignment}

SeqsUpTo(S, n) == UNION {[1..k -> S] : k \in 0..n}

Contains(s, c) == \E i \in 1..Len(s) : s[i] = c

(***************************************************************************)
(* ${{ github.event.inputs.issue_description }} inside  echo "..."         *)
(* (lines 127-128).  The expression is replaced by the text of the input   *)
(* before bash reads the script, so bash lexes the description as part of  *)
(* a double-quoted word: a double quote of the description closes or       *)
(* opens the quoting, a backslash escapes what follows, and a newline      *)
(* outside the quotes ends the command.  Lex reads the description         *)
(* followed by the script's own closing quote, starting inside the quotes; *)
(* the result is the word echo receives, or ok = FALSE when the script is  *)
(* left with unbalanced quotes or a broken command (bash -e then exits     *)
(* non-zero).                                                              *)
(***************************************************************************)
RECURSIVE Lex(_, _, _, _)
Lex(t, i, inq, acc) ==
    IF i > Len(t) THEN [ok |-> ~inq, out |-> acc]
    ELSE IF t[i] = DQ THEN Lex(t, i + 1, ~inq, acc)
    ELSE IF t[i] = BS THEN
        IF inq
        THEN IF t[i + 1] \in {DQ, BS} THEN Lex(t, i + 2, inq, Append(acc, t[i + 1]))
             ELSE IF t[i + 1] = NL THEN Lex(t, i + 2, inq, acc)
             ELSE Lex(t, i + 1, inq, Append(acc, BS))
        ELSE IF t[i + 1] = NL THEN Lex(t, i + 2, inq, acc)
             ELSE Lex(t, i + 2, inq, Append(acc, t[i + 1]))
    ELSE IF t[i] = NL THEN
        IF inq THEN Lex(t, i + 1, inq, Append(acc, NL))
        ELSE [ok |-> FALSE, out |-> acc]
    ELSE Lex(t, i + 1, inq, Append(acc, t[i]))

ShellDoubleQuoted(d) == Lex(Append(d, DQ), 1, TRUE, <<>>)

(* echo: its argument followed by a newline. *)
Echo(s) == Append(s, NL)

(* tr '\n' ' ' (line 128). *)
Tr(s) == [i \in 1..Len(s) |-> IF s[i] = NL THEN SP ELSE s[i]]

(* sed 's/"/'\''/g' (line 128): every double quote becomes an apostrophe. *)
Sed(s) == [i \in 1..Len(s) |-> IF s[i] = DQ THEN SQ ELSE s[i]]

(* $( ... ): the output of the pipeline without its trailing newlines. *)
RECURSIVE CommandSubstitution(_)
CommandSubstitution(s) ==
    IF Len(s) > 0 /\ s[Len(s)] = NL
    THEN CommandSubstitution(SubSeq(s, 1, Len(s) - 1))
    ELSE s

(* DESC_CLEANED (line 128), from the word echo receives. *)
DescCleaned(word) == CommandSubstitution(Sed(Tr(Echo(word))))

(***************************************************************************)
(* $GITHUB_ENV is a file of NAME=value lines, which the runner reads in    *)
(* order when the step ends, a later line for a name replacing an earlier  *)
(* one.  An echoed value s with newlines in it runs over into further      *)
(* lines of the file.  FirstLine is the value the runner reads for the     *)
(* name that was echoed.  Spills says that a further non-empty line has no *)
(* NAME= of its own, which makes the runner reject the file ("Invalid      *)
(* format") and fails the step.  A further line that starts with           *)
(* ISSUE_KEY= sets ISSUE_KEY to the rest of the line: IssueKeyAfter.  A    *)
(* line with an = later in it sets some other name.                        *)
(***************************************************************************)
RECURSIVE FirstLine(_)
FirstLine(s) ==
    IF s = <<>> \/ Head(s) = NL THEN <<>>
    ELSE <<Head(s)>> \o FirstLine(Tail(s))

RECURSIVE AfterLine(_)
AfterLine(s) ==
    IF s = <<>> THEN <<>>
    ELSE IF Head(s) = NL THEN Tail(s)
    ELSE AfterLine(Tail(s))

RECURSIVE Lines(_)
Lines(s) == IF s = <<>> THEN <<>> ELSE <<FirstLine(s)>> \o Lines(AfterLine(s))

Spills(s) ==
    \E i \in 2..Len(Lines(s)) :
        Lines(s)[i] # <<>> /\ ~Contains(Lines(s)[i], Assignment)

RECURSIVE Join(_)
Join(s) == IF s = <<>> THEN "" ELSE Head(s) \o Join(Tail(s))

RECURSIVE IssueKeyAfter(_, _)
IssueKeyAfter(lines, key) ==
    IF lines = <<>> THEN key
    ELSE IF Head(lines) = <<>> THEN IssueKeyAfter(Tail(lines), key)
    ELSE IF Head(Head(lines)) = Assignment
         THEN IssueKeyAfter(Tail(lines), AssignedKey \o Join(Tail(Head(lines))))
         ELSE IssueKeyAfter(Tail(lines), key)

(***************************************************************************)
(* Inputs of the triggers.  WellFormedKeys are the keys of the form the    *)
(* workflow's input description gives (line 93, "e.g., PROJ-123"); the     *)
(* tracker holds an issue for each of them.  "oops" is a non-empty key not *)
(* of that form and "" a key left out.                                     *)
(***************************************************************************)
WellFormedKeys == {"PROJ-1", "PROJ-2"}
JiraIssues == WellFormedKeys
AnyKeys == {"", "oops", "PROJ-1"}
Titles == {"T1", "T2"}
SomeDescriptions == {<<Letter>>, <<BS, DQ>>}
Descriptions == SeqsUpTo(Char, MaxLen)
Pair == {1, 2}

Triggers == 1..MaxTriggers

NoUrl == <<>>
PrUrl(n) == <<"https://github.com/o/r/pull/", n>>

NoInputs == [issue_key |-> "", issue_summary |-> "", issue_description |-> <<>>]
NoEnv == [ISSUE_KEY |-> "", TITLE |-> "", RAW_DESC |-> <<>>, DESC |-> <<>>, BRANCH |-> ""]

VARIABLES
    pc,          \* per trigger: the step its run executes next
    ack,         \* per trigger: the answer to the dispatch request
    inputs,      \* per trigger: github.event.inputs
    env,         \* per trigger: the job environment exported through $GITHUB_ENV
    envFile,     \* per trigger: the text appended to $GITHUB_ENV as RAW_DESC=...
    conclusion,  \* per trigger: the run's conclusion
    failedStep,  \* per trigger: the step that exited non-zero
    prUrl,       \* per trigger: steps.cpr.outputs.pull-request-url
    log,         \* per trigger: the external calls and commits of the run, in order
    jira,        \* the tracker: status and comments of every issue
    pulls,       \* the host: the pull requests, by number
    remote       \* the host: the pushed branches and the run whose commit each holds

vars == <<pc, ack, inputs, env, envFile, conclusion, failedStep, prUrl, log,
          jira, pulls, remote>>

runVars == <<pc, ack, inputs, env, envFile, conclusion, failedStep, prUrl, log>>

Init ==
    /\ pc = [t \in Triggers |-> "none"]
    /\ ack = [t \in Triggers |-> "none"]
    /\ inputs = [t \in Triggers |-> NoInputs]
    /\ env = [t \in Triggers |-> NoEnv]
    /\ envFile = [t \in Triggers |-> <<>>]
    /\ conclusion = [t \in Triggers |-> "none"]
    /\ failedStep = [t \in Triggers |-> "none"]
    /\ prUrl = [t \in Triggers |-> NoUrl]
    /\ log = [t \in Triggers |-> <<>>]
    /\ jira = [k \in JiraIssues |-> [status |-> "To Do", comments |-> {}]]
    /\ pulls = <<>>
    /\ remote = {}

(* A run is active from its dispatch to its conclusion. *)
Active(t) == pc[t] \notin {"none", "rejected", "done"}

Event(t, op, arg, res, url) ==
    [op |-> op, issue |-> env[t].ISSUE_KEY, arg |-> arg, res |-> res, url |-> url]

(***************************************************************************)
(* on.workflow_dispatch.inputs (lines 89-100): the three inputs are        *)
(* required, and a dispatch request that leaves one out is answered 422    *)
(* and starts no run.  Nothing else about the inputs is checked, and the   *)
(* workflow has no concurrency group: every other request is answered 204  *)
(* and starts a run, whatever runs are active.  Triggers are numbered in   *)
(* the order they arrive.                                                  *)
(***************************************************************************)
Required(in) ==
    /\ in.issue_key # ""
    /\ in.issue_summary # ""
    /\ in.issue_description # <<>>

(* Dispatch, with a per-ticket lock that only a successful run gives back. *)
DispatchHoldingLock(t, Keys, Summaries, Descs) ==
    /\ pc[t] = "none"
    /\ \A u \in 1..(t - 1) : pc[u] # "none"
    /\ \E k \in Keys, s \in Summaries, d \in Descs :
         LET in == [issue_key |-> k, issue_summary |-> s, issue_description |-> d]
             held == \E u \in 1..(t - 1) :
                        /\ ack[u] = "204"
                        /\ inputs[u].issue_key = k
                        /\ conclusion[u] # "success"
         IN /\ inputs' = [inputs EXCEPT ![t] = in]
            /\ IF Required(in) /\ ~held
               THEN /\ ack' = [ack EXCEPT ![t] = "204"]
                    /\ pc' = [pc EXCEPT ![t] = "checkout"]
               ELSE /\ ack' = [ack EXCEPT ![t] = IF Required(in) THEN "409" ELSE "422"]
                    /\ pc' = [pc EXCEPT ![t] = "rejected"]
    /\ UNCHANGED <<env, envFile, conclusion, failedStep, prUrl, log, jira, pulls, remote>>

Dispatch(t, Keys, Summaries, Descs) ==
    /\ pc[t] = "none"
    /\ \A u \in 1..(t - 1) : pc[u] # "none"
    /\ \E k \in Keys, s \in Summaries, d \in Descs :
         LET in == [issue_key |-> k, issue_summary |-> s, issue_description |-> d]
         IN /\ inputs' = [inputs EXCEPT ![t] = in]
            /\ IF Required(in)
               THEN /\ ack' = [ack EXCEPT ![t] = "204"]
                    /\ pc' = [pc EXCEPT ![t] = "checkout"]
               ELSE /\ ack' = [ack EXCEPT ![t] = "422"]
                    /\ pc' = [pc EXCEPT ![t] = "rejected"]
    /\ UNCHANGED <<env, envFile, conclusion, failedStep, prUrl, log, jira, pulls, remote>>

(* StepFails, with the step marked continue-on-error: the run goes on at the same step. *)
StepFailsAndGoesOn(t) ==
    /\ conclusion' = [conclusion EXCEPT ![t] = "failure"]
    /\ failedStep' = [failedStep EXCEPT ![t] = pc[t]]
    /\ UNCHANGED pc

(* A step exits non-zero: the run stops there, the later steps are skipped. *)
StepFails(t) ==
    /\ pc' = [pc EXCEPT ![t] = "done"]
    /\ conclusion' = [conclusion EXCEPT ![t] = "failure"]
    /\ failedStep' = [failedStep EXCEPT ![t] = pc[t]]

StepSucceeds(t, next) ==
    /\ pc' = [pc EXCEPT ![t] = next]
    /\ UNCHANGED <<conclusion, failedStep>>

(* CheckoutAndSetup, the run waiting until no other run is in progress. *)
CheckoutAndSetupWhenAlone(t) ==
    /\ pc[t] = "checkout"
    /\ \A u \in Triggers \ {t} : ~Active(u)
    /\ StepSucceeds(t, "vars")
    /\ UNCHANGED <<ack, inputs, env, envFile, prUrl, log, jira, pulls, remote>>

(* Steps 0 and 1 (lines 111-120): checkout of the repository, Node.js and codex. *)
CheckoutAndSetup(t) ==
    /\ pc[t] = "checkout"
    /\ StepSucceeds(t, "vars")
    /\ UNCHANGED <<ack, inputs, env, envFile, prUrl, log, jira, pulls, remote>>

(* Branch, with the number of the run in the name. *)
BranchPerRun(t) == "codex/" \o inputs[t].issue_key \o "-" \o ToString(t)

(* Branch, named after the summary of the issue. *)
BranchFromSummary(t) == "codex/" \o inputs[t].issue_summary

(* BRANCH=codex/${{ github.event.inputs.issue_key }} (line 130), in the run of trigger t. *)
Branch(t) == "codex/" \o inputs[t].issue_key

(***************************************************************************)
(* Step 2, id vars (lines 122-130).  The script appends ISSUE_KEY, TITLE,  *)
(* RAW_DESC, DESC and BRANCH to $GITHUB_ENV.  RAW_DESC is the word echo    *)
(* receives for the description, as it is, so that its further lines are  *)
(* lines of the file, read after ISSUE_KEY and TITLE and before DESC and   *)
(* BRANCH; DESC is that word through tr and sed.  The step fails when bash *)
(* cannot run the script or when the runner rejects the file.              *)
(***************************************************************************)
ExportInputs(t) ==
    /\ pc[t] = "vars"
    /\ LET word == ShellDoubleQuoted(inputs[t].issue_description)
       IN IF ~word.ok
          THEN /\ StepFails(t)
               /\ UNCHANGED <<env, envFile>>
          ELSE /\ envFile' = [envFile EXCEPT ![t] = Echo(word.out)]
               /\ IF Spills(Echo(word.out))
                  THEN /\ StepFails(t)
                       /\ UNCHANGED env
                  ELSE /\ StepSucceeds(t, "jira_in_progress")
                       /\ env' = [env EXCEPT ![t] =
                              [ISSUE_KEY |-> IssueKeyAfter(Tail(Lines(Echo(word.out))),
                                                          inputs[t].issue_key),
                               TITLE |-> inputs[t].issue_summary,
                               RAW_DESC |-> FirstLine(Echo(word.out)),
                               DESC |-> DescCleaned(word.out),
                               BRANCH |-> Branch(t)]]
    /\ UNCHANGED <<ack, inputs, prUrl, log, jira, pulls, remote>>

(***************************************************************************)
(* curl -sS -X POST (lines 140-144, 188-192, 196-200) has no --fail: it    *)
(* exits non-zero only when the transfer itself fails (no connection, a    *)
(* timeout), and exits 0 on every HTTP answer, 2xx or not.  The tracker    *)
(* answers 2xx only for an issue it holds, and then applies the request.   *)
(***************************************************************************)
CurlResults == {"2xx", "non2xx", "transport"}

CurlExitsZero(res) == res # "transport"

TrackerAnswers(t, res) == res = "2xx" => env[t].ISSUE_KEY \in JiraIssues

(* POST /rest/api/3/issue/$ISSUE_KEY/transitions with a transition id. *)
JiraTransition(t, id, status, res) ==
    /\ TrackerAnswers(t, res)
    /\ log' = [log EXCEPT ![t] = Append(@, Event(t, "transition", id, res, NoUrl))]
    /\ jira' = IF res = "2xx"
               THEN [jira EXCEPT ![env[t].ISSUE_KEY].status = status]
               ELSE jira

(* JiraInProgress, the call repeated when curl could not reach the tracker. *)
JiraInProgressRetried(t) ==
    /\ pc[t] = "jira_in_progress"
    /\ \E res \in CurlResults :
         /\ JiraTransition(t, "21", "In Progress", res)
         /\ IF CurlExitsZero(res)
            THEN StepSucceeds(t, "git_config")
            ELSE StepSucceeds(t, "jira_in_progress")
    /\ UNCHANGED <<ack, inputs, env, envFile, prUrl, pulls, remote>>

(* Step 3 (lines 132-145): transition 21, to "In Progress". *)
JiraInProgress(t) ==
    /\ pc[t] = "jira_in_progress"
    /\ \E res \in CurlResults :
         /\ JiraTransition(t, "21", "In Progress", res)
         /\ IF CurlExitsZero(res)
            THEN StepSucceeds(t, "git_config")
            ELSE StepFails(t)
    /\ UNCHANGED <<ack, inputs, env, envFile, prUrl, pulls, remote>>

(* Step 4 (lines 147-150): the git author of the commit. *)
GitConfig(t) ==
    /\ pc[t] = "git_config"
    /\ StepSucceeds(t, "codex")
    /\ UNCHANGED <<ack, inputs, env, envFile, prUrl, log, jira, pulls, remote>>

(* "Implement JIRA ticket $ISSUE_KEY: $TITLE. $DESC" (line 160). *)
Instruction(e) == [issue_key |-> e.ISSUE_KEY, title |-> e.TITLE, desc |-> e.DESC]

(* "feat($ISSUE_KEY): $TITLE" (line 163). *)
CommitMessage(e) == [issue_key |-> e.ISSUE_KEY, title |-> e.TITLE]

(***************************************************************************)
(* Step 5 (lines 152-163), under set -e: codex is run once with the        *)
(* instruction; when it exits non-zero the script stops there.  Otherwise  *)
(* git add -A and git commit follow, and git commit exits non-zero when    *)
(* codex changed nothing.  The commit stays in the run's working copy.     *)
(***************************************************************************)
CodexResults == {"changes", "no_changes", "error"}

CodexImplementAndCommit(t) ==
    /\ pc[t] = "codex"
    /\ \E res \in CodexResults :
         LET agent == Event(t, "codex", Instruction(env[t]), res, NoUrl)
             commit == Event(t, "commit", CommitMessage(env[t]), "ok", NoUrl)
         IN IF res = "changes"
            THEN /\ log' = [log EXCEPT ![t] = @ \o <<agent, commit>>]
                 /\ StepSucceeds(t, "cpr")
            ELSE /\ log' = [log EXCEPT ![t] = Append(@, agent)]
                 /\ StepFails(t)
    /\ UNCHANGED <<ack, inputs, env, envFile, prUrl, jira, pulls, remote>>

(* title and body of the pull request (lines 172-176). *)
PrTitle(e) == [title |-> e.TITLE, issue_key |-> e.ISSUE_KEY]
PrBody(e) == [issue_key |-> e.ISSUE_KEY, desc |-> e.DESC]

(* The open pull requests from branch b into main. *)
OpenPulls(b) == {n \in 1..Len(pulls) : pulls[n].head = b /\ pulls[n].base = "main"}

Push(t, b) == {r \in remote : r.branch # b} \cup {[branch |-> b, tip |-> t]}

(* CreatePullRequest, its step marked continue-on-error. *)
CreatePullRequestContinueOnError(t) ==
    /\ pc[t] = "cpr"
    /\ LET b == env[t].BRANCH
           pr == [head |-> b, base |-> "main", title |-> PrTitle(env[t]),
                  body |-> PrBody(env[t]), by |-> t]
           req == [base |-> "main", branch |-> b, title |-> pr.title, body |-> pr.body]
       IN \/ /\ OpenPulls(b) = {}
             /\ remote' = Push(t, b)
             /\ pulls' = Append(pulls, pr)
             /\ prUrl' = [prUrl EXCEPT ![t] = PrUrl(Len(pulls) + 1)]
             /\ log' = [log EXCEPT ![t] =
                    Append(@, Event(t, "cpr", req, "created", PrUrl(Len(pulls) + 1)))]
             /\ StepSucceeds(t, "jira_in_review")
          \/ /\ \E n \in OpenPulls(b) :
                  /\ pulls' = [pulls EXCEPT ![n].title = pr.title, ![n].body = pr.body]
                  /\ prUrl' = [prUrl EXCEPT ![t] = PrUrl(n)]
                  /\ log' = [log EXCEPT ![t] =
                         Append(@, Event(t, "cpr", req, "updated", PrUrl(n)))]
             /\ remote' = Push(t, b)
             /\ StepSucceeds(t, "jira_in_review")
          \/ /\ \E pushed \in BOOLEAN :
                  remote' = IF pushed THEN Push(t, b) ELSE remote
             /\ log' = [log EXCEPT ![t] = Append(@, Event(t, "cpr", req, "failed", NoUrl))]
             /\ StepSucceeds(t, "jira_in_review")
             /\ UNCHANGED <<pulls, prUrl>>
    /\ UNCHANGED <<ack, inputs, env, envFile, jira>>

(***************************************************************************)
(* Step 6, id cpr (lines 165-176): peter-evans/create-pull-request with    *)
(* base main and branch env.BRANCH.  The action pushes the commit to the   *)
(* branch, replacing what the branch held, and then opens a pull request   *)
(* from the branch into main, or updates the one that is open (line 104:   *)
(* "create and update PRs"; the host keeps at most one open pull request   *)
(* per branch and base).  Its output pull-request-url is that pull         *)
(* request's URL.  The push or the request to the host may fail.           *)
(***************************************************************************)
CreatePullRequest(t) ==
    /\ pc[t] = "cpr"
    /\ LET b == env[t].BRANCH
           pr == [head |-> b, base |-> "main", title |-> PrTitle(env[t]),
                  body |-> PrBody(env[t]), by |-> t]
           req == [base |-> "main", branch |-> b, title |-> pr.title, body |-> pr.body]
       IN \/ /\ OpenPulls(b) = {}
             /\ remote' = Push(t, b)
             /\ pulls' = Append(pulls, pr)
             /\ prUrl' = [prUrl EXCEPT ![t] = PrUrl(Len(pulls) + 1)]
             /\ log' = [log EXCEPT ![t] =
                    Append(@, Event(t, "cpr", req, "created", PrUrl(Len(pulls) + 1)))]
             /\ StepSucceeds(t, "jira_in_review")
          \/ /\ \E n \in OpenPulls(b) :
                  /\ pulls' = [pulls EXCEPT ![n].title = pr.title, ![n].body = pr.body]
                  /\ prUrl' = [prUrl EXCEPT ![t] = PrUrl(n)]
                  /\ log' = [log EXCEPT ![t] =
                         Append(@, Event(t, "cpr", req, "updated", PrUrl(n)))]
             /\ remote' = Push(t, b)
             /\ StepSucceeds(t, "jira_in_review")
          \/ /\ \E pushed \in BOOLEAN :
                  remote' = IF pushed THEN Push(t, b) ELSE remote
             /\ log' = [log EXCEPT ![t] = Append(@, Event(t, "cpr", req, "failed", NoUrl))]
             /\ StepFails(t)
             /\ UNCHANGED <<pulls, prUrl>>
    /\ UNCHANGED <<ack, inputs, env, envFile, jira>>

(***************************************************************************)
(* Step 7 (lines 178-200) is one script of two curl commands, run by the   *)
(* runner's default shell, bash -e: the script stops at the first command  *)
(* that exits non-zero and the step fails; the step's exit status is       *)
(* otherwise that of the last command.  First command: transition 31, to   *)
(* "In Review".                                                            *)
(***************************************************************************)
JiraInReview(t) ==
    /\ pc[t] = "jira_in_review"
    /\ \E res \in CurlResults :
         /\ JiraTransition(t, "31", "In Review", res)
         /\ IF CurlExitsZero(res)
            THEN StepSucceeds(t, "jira_comment")
            ELSE StepFails(t)
    /\ UNCHANGED <<ack, inputs, env, envFile, prUrl, pulls, remote>>

(* "PR created: $PR_URL" (line 200), PR_URL being steps.cpr.outputs.pull-request-url. *)
CommentBody(url) == [text |-> "PR created: ", url |-> url]

(* JiraComment, posting the URL of the newest pull request of the repository. *)
JiraCommentLatestPull(t) ==
    /\ pc[t] = "jira_comment"
    /\ \E res \in CurlResults :
         /\ TrackerAnswers(t, res)
         /\ log' = [log EXCEPT ![t] =
                Append(@, Event(t, "comment", CommentBody(PrUrl(Len(pulls))), res, PrUrl(Len(pulls))))]
         /\ jira' = IF res = "2xx"
                    THEN [jira EXCEPT ![env[t].ISSUE_KEY].comments =
                              @ \cup {CommentBody(PrUrl(Len(pulls)))}]
                    ELSE jira
         /\ IF CurlExitsZero(res)
            THEN /\ pc' = [pc EXCEPT ![t] = "done"]
                 /\ conclusion' = [conclusion EXCEPT ![t] = "success"]
                 /\ UNCHANGED failedStep
            ELSE StepFails(t)
    /\ UNCHANGED <<ack, inputs, env, envFile, prUrl, pulls, remote>>

(* Step 7, second command: POST /rest/api/3/issue/$ISSUE_KEY/comment. *)
JiraComment(t) ==
    /\ pc[t] = "jira_comment"
    /\ \E res \in CurlResults :
         /\ TrackerAnswers(t, res)
         /\ log' = [log EXCEPT ![t] =
                Append(@, Event(t, "comment", CommentBody(prUrl[t]), res, prUrl[t]))]
         /\ jira' = IF res = "2xx"
                    THEN [jira EXCEPT ![env[t].ISSUE_KEY].comments =
                              @ \cup {CommentBody(prUrl[t])}]
                    ELSE jira
         /\ IF CurlExitsZero(res)
            THEN /\ pc' = [pc EXCEPT ![t] = "done"]
                 /\ conclusion' = [conclusion EXCEPT ![t] = "success"]
                 /\ UNCHANGED failedStep
            ELSE StepFails(t)
    /\ UNCHANGED <<ack, inputs, env, envFile, prUrl, pulls, remote>>

Step(t) ==
    \/ CheckoutAndSetup(t)
    \/ ExportInputs(t)
    \/ JiraInProgress(t)
    \/ GitConfig(t)
    \/ CodexImplementAndCommit(t)
    \/ CreatePullRequest(t)
    \/ JiraInReview(t)
    \/ JiraComment(t)

(***************************************************************************)
(* Spec: any number of triggers up to MaxTriggers on the well-formed keys, *)
(* their runs interleaved step by step.                                    *)
(***************************************************************************)
Next ==
    \E t \in Triggers :
        Dispatch(t, WellFormedKeys, {"T1"}, {<<Letter>>}) \/ Step(t)

Spec == Init /\ [][Next]_vars

(***************************************************************************)
(* SpecPair: two triggers that may differ in key, summary and description. *)
(***************************************************************************)
NextPair ==
    \E t \in Pair :
        Dispatch(t, WellFormedKeys, Titles, SomeDescriptions) \/ Step(t)

SpecPair == Init /\ [][NextPair]_vars

(***************************************************************************)
(* SpecOne: one trigger, over every key, left out and malformed ones       *)
(* included, and every description of up to MaxLen characters.             *)
(***************************************************************************)
NextOne == Dispatch(1, AnyKeys, {"T1"}, Descriptions) \/ Step(1)

SpecOne == Init /\ [][NextOne]_vars

(***************************************************************************)
(* Vocabulary of the properties.                                           *)
(***************************************************************************)
Done(t) == pc[t] = "done"

Calls(t, op) == {i \in 1..Len(log[t]) : log[t][i].op = op}

Transitions(t, id) == {i \in Calls(t, "transition") : log[t][i].arg = id}

PrOpened(t) == {i \in Calls(t, "cpr") : log[t][i].res \in {"created", "updated"}}

(* The specification's name for the failure of a step (its error taxonomy). *)
ReasonOf(step) ==
    CASE step \in {"jira_in_progress", "jira_in_review"} -> "TicketTransitionFailed"
      [] step = "codex" -> "AgentExecutionFailed"
      [] step = "cpr" -> "PRCreationFailed"
      [] step = "jira_comment" -> "CommentFailed"
      [] OTHER -> "StepFailed"

FailureReason(t) == ReasonOf(failedStep[t])

(* What the run records besides its conclusion: the step that failed, if any. *)
Warnings(t) == IF conclusion[t] = "failure" THEN {FailureReason(t)} ELSE {}

(* s has a double quote that no backslash escapes, or a newline. *)
RECURSIVE BackslashesBefore(_, _)
BackslashesBefore(s, i) ==
    IF i > 1 /\ s[i - 1] = BS THEN 1 + BackslashesBefore(s, i - 1) ELSE 0

Unsanitized(s) ==
    \E i \in 1..Len(s) :
        \/ s[i] = NL
        \/ s[i] = DQ /\ BackslashesBefore(s, i) % 2 = 0

(***************************************************************************)
(* C1: at most one run per ticket is active at any time; a trigger for a   *)
(* ticket that has an active run is rejected and performs no step.         *)
(***************************************************************************)
C1_OneActiveRunPerTicket ==
    \A t1 \in Triggers, t2 \in Triggers :
        (t1 # t2 /\ Active(t1) /\ Active(t2))
            => inputs[t1].issue_key # inputs[t2].issue_key

(***************************************************************************)
(* C2: however the steps of the runs of one ticket interleave, at most one *)
(* pull request is ever created for the ticket.                            *)
(***************************************************************************)
C2_OnePullRequestPerTicket ==
    \A k \in WellFormedKeys :
        Cardinality({n \in 1..Len(pulls) : inputs[pulls[n].by].issue_key = k}) <= 1

(* Two runs of one ticket are active together, both past the pull-request step. *)
C2_Witness ==
    \E t1 \in Triggers, t2 \in Triggers :
        /\ t1 # t2
        /\ inputs[t1].issue_key = inputs[t2].issue_key
        /\ pc[t1] = "jira_in_review" /\ pc[t2] = "jira_in_review"
        /\ PrOpened(t1) # {} /\ PrOpened(t2) # {}

(***************************************************************************)
(* C3: when the transition to "In Progress" fails (no 2xx answer), the     *)
(* agent is never invoked in the run, and the run ends Failed with reason  *)
(* TicketTransitionFailed.                                                 *)
(***************************************************************************)
C3_NoAgentAfterFailedInProgress ==
    \A t \in Triggers :
        (\E i \in Transitions(t, "21") : log[t][i].res # "2xx")
            => /\ Calls(t, "codex") = {}
               /\ Done(t) => /\ conclusion[t] = "failure"
                             /\ FailureReason(t) = "TicketTransitionFailed"

(***************************************************************************)
(* C4: when the pull request was opened and the transition to "In Review"  *)
(* fails, the run ends Failed with reason TicketTransitionFailed and its   *)
(* record still holds the URL the pull-request step returned.              *)
(***************************************************************************)
C4_FailedInReviewKeepsPrUrl ==
    \A t \in Triggers :
        (/\ Done(t)
         /\ PrOpened(t) # {}
         /\ \E i \in Transitions(t, "31") : log[t][i].res # "2xx")
            => /\ conclusion[t] = "failure"
               /\ FailureReason(t) = "TicketTransitionFailed"
               /\ prUrl[t] # NoUrl
               /\ \A i \in PrOpened(t) : log[t][i].url = prUrl[t]

(***************************************************************************)
(* C5: when the agent fails or changes nothing, the run ends Failed with   *)
(* reason AgentExecutionFailed, it opens no pull request, attempts no      *)
(* transition to "In Review" and no comment, and the ticket is left        *)
(* "In Progress".                                                          *)
(***************************************************************************)
C5_AgentFailureLeavesInProgress ==
    \A t \in Triggers :
        (/\ Done(t)
         /\ inputs[t].issue_key \in JiraIssues
         /\ \E i \in Calls(t, "codex") : log[t][i].res # "changes")
            => /\ conclusion[t] = "failure"
               /\ FailureReason(t) = "AgentExecutionFailed"
               /\ Calls(t, "cpr") = {}
               /\ Transitions(t, "31") = {}
               /\ Calls(t, "comment") = {}
               /\ jira[inputs[t].issue_key].status = "In Progress"

(* Every external call and the commit of the run succeeded. *)
AllCallsSucceeded(t) ==
    \A i \in 1..Len(log[t]) : log[t][i].res \in {"2xx", "changes", "ok", "created", "updated"}

(* The six events of a complete run, in order, with the arguments the flow names. *)
CompleteFlow(t) ==
    /\ Len(log[t]) = 6
    /\ log[t][1].op = "transition" /\ log[t][1].arg = "21"
    /\ log[t][2].op = "codex" /\ ~Unsanitized(log[t][2].arg.desc)
    /\ log[t][3].op = "commit"
    /\ log[t][4].op = "cpr"
    /\ log[t][4].arg.base = "main"
    /\ log[t][4].arg.branch = "codex/" \o inputs[t].issue_key
    /\ log[t][5].op = "transition" /\ log[t][5].arg = "31"
    /\ log[t][6].op = "comment" /\ log[t][6].arg.url = log[t][4].url
    /\ \A i \in 1..6 : log[t][i].issue = inputs[t].issue_key

(***************************************************************************)
(* C6: a run of a valid trigger in which every external call succeeds      *)
(* performs exactly: transition to In Progress, agent invocation with the  *)
(* sanitized instruction, commit, pull request into main from              *)
(* codex/<ticket_id>, transition to In Review, comment with the URL of the *)
(* pull request; and it is then Completed.                                 *)
(***************************************************************************)
C6_SuccessfulRunFlow ==
    \A t \in Triggers :
        (/\ Done(t)
         /\ inputs[t].issue_key \in WellFormedKeys
         /\ AllCallsSucceeded(t))
            => conclusion[t] = "success" /\ CompleteFlow(t)

(***************************************************************************)
(* C7: when the comment fails after the pull request and the transition to *)
(* "In Review" succeeded, the run still ends Completed, and the failure of *)
(* the comment is recorded as the warning CommentFailed.                   *)
(***************************************************************************)
C7_CommentFailureIsWarning ==
    \A t \in Triggers :
        (/\ Done(t)
         /\ PrOpened(t) # {}
         /\ \E i \in Transitions(t, "31") : log[t][i].res = "2xx"
         /\ \E i \in Calls(t, "comment") : log[t][i].res # "2xx")
            => conclusion[t] = "success" /\ "CommentFailed" \in Warnings(t)

(* The value written after RAW_DESC= in $GITHUB_ENV, without echo's own newline. *)
ExportedRawDesc(t) == SubSeq(envFile[t], 1, Len(envFile[t]) - 1)

(***************************************************************************)
(* C8: no payload downstream of the trigger holds an unescaped double      *)
(* quote or a newline of the description: not the environment export, not  *)
(* the agent's instruction, not the body of the pull request.              *)
(***************************************************************************)
C8_DescriptionSanitizedDownstream ==
    \A t \in Triggers :
        /\ ~Unsanitized(ExportedRawDesc(t))
        /\ ~Unsanitized(env[t].RAW_DESC)
        /\ ~Unsanitized(env[t].DESC)
        /\ \A i \in Calls(t, "codex") : ~Unsanitized(log[t][i].arg.desc)
        /\ \A i \in Calls(t, "cpr") : ~Unsanitized(log[t][i].arg.body.desc)

(***************************************************************************)
(* C9: a trigger whose ticket_id is empty or not of the ticket-key form is *)
(* rejected and has no side effect: no call to the tracker or the agent,   *)
(* no commit, no branch, no pull request, no comment.                      *)
(***************************************************************************)
C9_MalformedKeyRejected ==
    \A t \in Triggers :
        (pc[t] # "none" /\ inputs[t].issue_key \notin WellFormedKeys)
            => /\ ack[t] = "422"
               /\ log[t] = <<>>
               /\ \A r \in remote : r.tip # t
               /\ \A n \in 1..Len(pulls) : pulls[n].by # t

Cancel(t) ==
    /\ Active(t)
    /\ pc' = [pc EXCEPT ![t] = "done"]
    /\ conclusion' = [conclusion EXCEPT ![t] = "cancelled"]
    /\ UNCHANGED <<ack, inputs, env, envFile, failedStep, prUrl, log, jira, pulls, remote>>

NoRunActive == \A u \in Triggers : ~Active(u)

NextSeq ==
    \E t \in Triggers :
        \/ NoRunActive /\ Dispatch(t, WellFormedKeys \cup {""}, {"T1"}, {<<Letter>>})
        \/ Step(t)
        \/ Cancel(t)

SpecSeq == Init /\ [][NextSeq]_vars

(* The runs of ticket k that came before trigger t. *)
Earlier(t, k) == {u \in 1..(t - 1) : ack[u] = "204" /\ inputs[u].issue_key = k}

(***************************************************************************)
(* C11: however a run ended (Completed, Failed at any step, cancelled),    *)
(* nothing of it is held afterwards: a trigger for the same ticket that    *)
(* arrives after the run has ended is accepted, never rejected because of  *)
(* the earlier run.                                                        *)
(***************************************************************************)
C11_TriggerAfterEndAccepted ==
    \A t \in Triggers :
        (pc[t] # "none" /\ Required(inputs[t])) => ack[t] = "204" /\ pc[t] # "rejected"

(* A ticket triggered again after a cancelled run and after a failed run, and accepted. *)
C11_Witness ==
    \E t1 \in Triggers, t2 \in Triggers :
        /\ t1 < t2
        /\ t1 \in Earlier(t2, inputs[t2].issue_key)
        /\ conclusion[t1] \in {"cancelled", "failure"}
        /\ ack[t2] = "204"
        /\ Done(t2) /\ conclusion[t2] = "success"

(***************************************************************************)
(* The state of a run in the specification's state machine, read off the   *)
(* step the run is at: Received until the "In Progress" call of step 3 has *)
(* returned, InProgress until step 5 has committed, Committed until step 6 *)
(* has opened the pull request, PRCreated until the "In Review" call has   *)
(* returned, InReview until the comment call has returned.                 *)
(***************************************************************************)
RunState(c, p) ==
    CASE c = "success" -> "Completed"
      [] c = "failure" -> "Failed"
      [] c = "cancelled" -> "Cancelled"
      [] p \in {"checkout", "vars", "jira_in_progress"} -> "Received"
      [] p \in {"git_config", "codex"} -> "InProgress"
      [] p = "cpr" -> "Committed"
      [] p = "jira_in_review" -> "PRCreated"
      [] p = "jira_comment" -> "InReview"
      [] OTHER -> "None"

StateChanges ==
    {<<"None", "Received">>, <<"Received", "InProgress">>, <<"InProgress", "Committed">>,
     <<"Committed", "PRCreated">>, <<"PRCreated", "InReview">>, <<"InReview", "Completed">>}
    \cup {<<s, "Failed">> : s \in {"Received", "InProgress", "Committed", "PRCreated", "InReview"}}

(***************************************************************************)
(* C12: the state of a run changes only along Received, InProgress,        *)
(* Committed, PRCreated, InReview, Completed, or from one of the first     *)
(* five to Failed; no state is skipped or entered twice, and nothing of a  *)
(* run changes once it is Completed or Failed.                             *)
(***************************************************************************)
C12_RunStateMachine ==
    [][\A t \in Triggers :
         LET before == RunState(conclusion[t], pc[t])
             after == RunState(conclusion'[t], pc'[t])
         IN /\ before # after => <<before, after>> \in StateChanges
            /\ before \in {"Completed", "Failed"} =>
                 /\ pc'[t] = pc[t] /\ conclusion'[t] = conclusion[t]
                 /\ log'[t] = log[t] /\ prUrl'[t] = prUrl[t]
                 /\ failedStep'[t] = failedStep[t]]_vars

(* One run went through the whole chain to Completed, another Failed from PRCreated. *)
C12_Witness ==
    \E t1 \in Triggers, t2 \in Triggers :
        /\ RunState(conclusion[t1], pc[t1]) = "Completed"
        /\ RunState(conclusion[t2], pc[t2]) = "Failed"
        /\ failedStep[t2] = "jira_in_review"
        /\ Len(log[t1]) = 6

(***************************************************************************)
(* C13: a run is Completed only if its "In Progress" transition, its agent *)
(* invocation, its commit, its pull request and its "In Review" transition *)
(* each succeeded, an answer other than 2xx being a failure; so a pull     *)
(* request is open and the tracker accepted the "In Review" transition.    *)
(***************************************************************************)
C13_CompletedOnlyIfEveryStepSucceeded ==
    \A t \in Triggers :
        conclusion[t] = "success"
            => /\ \E i \in Transitions(t, "21") : log[t][i].res = "2xx"
               /\ \E i \in Calls(t, "codex") : log[t][i].res = "changes"
               /\ Calls(t, "commit") # {}
               /\ PrOpened(t) # {} /\ OpenPulls(env[t].BRANCH) # {}
               /\ \E i \in Transitions(t, "31") : log[t][i].res = "2xx"

(* The failed pull-request steps in the log of run t. *)
PrFailed(t) == {i \in Calls(t, "cpr") : log[t][i].res = "failed"}

(***************************************************************************)
(* C14: a run whose pull-request step fails ends Failed with reason        *)
(* PRCreationFailed; it posts no "In Review" transition and no comment,    *)
(* and its commit stays: the last things it did are the commit and the     *)
(* failed pull-request step.                                               *)
(***************************************************************************)
C14_PrFailureStopsTheRun ==
    \A t \in Triggers :
        (\E i \in 1..Len(log[t]) : log[t][i].op = "cpr" /\ log[t][i].res = "failed")
            => /\ Done(t) /\ conclusion[t] = "failure"
               /\ FailureReason(t) = "PRCreationFailed"
               /\ Transitions(t, "31") = {}
               /\ Calls(t, "comment") = {}
               /\ Len(log[t]) >= 2
               /\ log[t][Len(log[t])].op = "cpr"
               /\ log[t][Len(log[t]) - 1].op = "commit"
               /\ prUrl[t] = NoUrl

(* A pull-request step failed while another run of the same ticket went on to its comment. *)
C14_Witness ==
    \E t1, t2 \in Triggers :
        /\ t1 # t2 /\ inputs[t1].issue_key = inputs[t2].issue_key
        /\ PrFailed(t1) # {}
        /\ Calls(t2, "comment") # {}
        /\ jira[inputs[t1].issue_key].status = "In Review"

(* The pull requests run t opened itself, as opposed to updated. *)
PrCreated(t) == {i \in Calls(t, "cpr") : log[t][i].res = "created"}

(* The URL run t posted is the output of its own pull-request step. *)
CommentHasOwnUrl(t) ==
    \A c \in Calls(t, "comment") :
        /\ log[t][c].url = prUrl[t]
        /\ log[t][c].arg = CommentBody(prUrl[t])
        /\ \A i \in PrOpened(t) : log[t][i].url = prUrl[t]

(***************************************************************************)
(* C15, as stated: each Completed run creates exactly one change request,  *)
(* its pr_url is the URL of that change request, and the comment it posts  *)
(* carries that URL.                                                       *)
(***************************************************************************)
C15_CompletedRunCreatesOnePullRequest ==
    \A t \in Triggers :
        conclusion[t] = "success"
            => /\ Cardinality(PrCreated(t)) = 1
               /\ \A i \in PrCreated(t) : log[t][i].url = prUrl[t]
               /\ CommentHasOwnUrl(t)

(***************************************************************************)
(* C15, amended: each Completed run has exactly one pull-request step,     *)
(* which created a pull request or updated the open one of its branch;     *)
(* pr_url, once set by that step, never changes; the comment the run posts *)
(* carries that URL.                                                       *)
(***************************************************************************)
C15_CompletedRunHasOnePullRequest ==
    [][\A t \in Triggers :
          /\ prUrl[t] # NoUrl => prUrl'[t] = prUrl[t]
          /\ prUrl'[t] # prUrl[t] => pc[t] = "cpr" /\ Cardinality(PrOpened(t)') = 1
          /\ conclusion'[t] = "success"
                => /\ Cardinality(Calls(t, "cpr")') = 1
                   /\ Cardinality(PrOpened(t)') = 1
                   /\ prUrl'[t] # NoUrl
                   /\ CommentHasOwnUrl(t)'
                   /\ Calls(t, "comment")' # {}]_vars

(* A Completed run that updated the pull request another run had opened, and posted its URL. *)
C15_Witness ==
    \E t \in Triggers :
        /\ conclusion[t] = "success"
        /\ PrCreated(t) = {} /\ PrOpened(t) # {}
        /\ \E n \in 1..Len(pulls) : pulls[n].by # t /\ prUrl[t] = PrUrl(n)
        /\ CommentBody(prUrl[t]) \in jira[inputs[t].issue_key].comments

(* The attempts of run t at each of the five external operations. *)
Attempts(t) ==
    <<Transitions(t, "21"), Calls(t, "codex"), Calls(t, "cpr"),
      Transitions(t, "31"), Calls(t, "comment")>>

(***************************************************************************)
(* C16: within one run no step is retried: the "In Progress" transition,   *)
(* the agent invocation, the pull-request step, the "In Review" transition *)
(* and the comment are each attempted at most once, succeeding or failing: *)
(* two calls of a run with the same operation are the two transitions.     *)
(***************************************************************************)
C16_NoStepRetried ==
    \A t \in Triggers :
        \A i, j \in 1..Len(log[t]) :
            (i < j /\ log[t][i].op = log[t][j].op)
                => log[t][i].op = "transition" /\ log[t][i].arg # log[t][j].arg

(* Two ended runs: one made all five attempts, the last failing; the other made one, which failed. *)
C16_Witness ==
    \E t1, t2 \in Triggers :
        /\ Done(t1) /\ conclusion[t1] = "failure" /\ failedStep[t1] = "jira_comment"
        /\ \A k \in 1..5 : Cardinality(Attempts(t1)[k]) = 1
        /\ Done(t2) /\ failedStep[t2] = "jira_in_progress"
        /\ Len(log[t2]) = 1 /\ log[t2][1].res = "transport"

(***************************************************************************)
(* The runner executes the next step of a job as soon as the step before   *)
(* it ended, and every call of a step returns: a run that has a step to    *)
(* take takes it.  Two dispatches, of either ticket.                       *)
(***************************************************************************)
NextFair ==
    \E t \in Pair :
        \/ Dispatch(t, WellFormedKeys, {"T1"}, {<<Letter>>})
        \/ Step(t)

SpecFair == Init /\ [][NextFair]_vars /\ \A t \in Pair : WF_vars(Step(t))

(***************************************************************************)
(* C17: every run that was created eventually reaches a terminal state,    *)
(* Completed or Failed, and stays there; no run stays in a non-terminal    *)
(* state forever.                                                          *)
(***************************************************************************)
C17_EveryRunEnds ==
    \A t \in Pair :
        Active(t) ~> [](Done(t) /\ RunState(conclusion[t], pc[t]) \in {"Completed", "Failed"})

(* Both runs have ended, one Completed and one Failed at the agent. *)
C17_Witness ==
    /\ \A t \in Pair : Done(t)
    /\ \E t1, t2 \in Pair :
         /\ conclusion[t1] = "success"
         /\ conclusion[t2] = "failure" /\ failedStep[t2] = "codex"

(* The branches of the repository that runs of ticket k pushed, and their open pull requests. *)
BranchesOf(k) == {r.branch : r \in {x \in remote : inputs[x.tip].issue_key = k}}
OpenPullsOf(k) == {n \in 1..Len(pulls) : inputs[pulls[n].by].issue_key = k}

(***************************************************************************)
(* C18: triggering a ticket again is safe: when the runs of a ticket are   *)
(* executed one after another, each started after the one before it ended  *)
(* at whatever step, the ticket has at most one branch and at most one     *)
(* open pull request at any time.                                          *)
(***************************************************************************)
C18_RetriggerKeepsOneBranchOnePull ==
    \A k \in WellFormedKeys :
        /\ Cardinality(BranchesOf(k)) <= 1
        /\ Cardinality(OpenPullsOf(k)) <= 1
        /\ \A n \in OpenPullsOf(k) : BranchesOf(k) = {pulls[n].head}

(* A ticket triggered again after a run that opened the pull request and then failed. *)
C18_Witness ==
    \E t1, t2 \in Triggers :
        /\ t1 \in Earlier(t2, inputs[t2].issue_key)
        /\ conclusion[t1] = "failure" /\ failedStep[t1] = "jira_in_review"
        /\ PrCreated(t1) # {}
        /\ Done(t2) /\ conclusion[t2] = "success"
        /\ [branch |-> env[t2].BRANCH, tip |-> t2] \in remote
        /\ Cardinality(OpenPullsOf(inputs[t2].issue_key)) = 1

(* The branches run t named in its pull-request steps. *)
BranchesUsed(t) == {log[t][i].arg.branch : i \in Calls(t, "cpr")} \cup ({env[t].BRANCH} \ {""})

(***************************************************************************)
(* C19: the branch name is injective in ticket_id: runs of two different   *)
(* tickets, however they interleave, never commit to, push to or open a    *)
(* pull request from the same branch; and a run of one ticket posts no     *)
(* transition and no comment to another ticket.                            *)
(***************************************************************************)
C19_TicketsKeptApart ==
    /\ \A t1, t2 \in Triggers :
          (/\ ack[t1] = "204" /\ ack[t2] = "204"
           /\ inputs[t1].issue_key # inputs[t2].issue_key)
             => BranchesUsed(t1) \cap BranchesUsed(t2) = {}
    /\ \A r \in remote : r.branch \in BranchesUsed(r.tip)
    /\ \A n \in 1..Len(pulls) :
          /\ pulls[n].head \in BranchesUsed(pulls[n].by)
          /\ pulls[n].title.issue_key = inputs[pulls[n].by].issue_key
    /\ \A t \in Triggers : \A i \in 1..Len(log[t]) : log[t][i].issue = inputs[t].issue_key
    /\ \A k \in JiraIssues : \A c \in jira[k].comments :
          \E t \in Triggers : inputs[t].issue_key = k /\ c = CommentBody(prUrl[t])
    /\ \A k \in JiraIssues :
          jira[k].status # "To Do"
             => \E t \in Triggers : inputs[t].issue_key = k /\ Calls(t, "transition") # {}

(* The runs dispatched for ticket k, and those of them that opened a pull request and posted its URL. *)
RunsOf(k) == {t \in Triggers : ack[t] = "204" /\ inputs[t].issue_key = k}
Delivered(k) ==
    {t \in RunsOf(k) :
        /\ PrOpened(t) # {}
        /\ \E i \in Calls(t, "comment") : log[t][i].res = "2xx" /\ log[t][i].issue = k
        /\ CommentBody(prUrl[t]) \in jira[k].comments}

(***************************************************************************)
(* C20: tracker and host stay reconciled for each ticket: whenever all     *)
(* runs of a ticket have ended and one of them opened a pull request and   *)
(* posted its URL as a comment, the status of the ticket is "In Review";   *)
(* no later or interleaved run of the ticket leaves it "In Progress".      *)
(***************************************************************************)
C20_TicketInReviewOncePrPosted ==
    \A k \in JiraIssues :
        ((\A t \in RunsOf(k) : Done(t)) /\ Delivered(k) # {})
            => jira[k].status = "In Review"

=============================================================================
